---------------------------- MODULE Spec2Model ----------------------------
(***************************************************************************)
(* Treap (content/data_structures/treap.py) and OrderedSet                 *)
(* (content/data_structures/ordered_set.py): two split/merge treaps whose  *)
(* nodes are mutated in place.  Each container owns a store of node        *)
(* objects (node id -> fields) and a root reference.  The same call with   *)
(* the same priority draw is applied to both containers, next to the       *)
(* reference set the stress tests keep.                                    *)
(*                                                                         *)
(* Keys are numbers measured in halves: the key q/2 is the integer q, so   *)
(* the integer key n is 2*n, 1.5 is 3, and `key + 1` is q + 2.  IntKeys    *)
(* are the integer keys 0 .. MaxKey; NumKeys are 0, 0.5, 1, ... as well.   *)
(* In a run whose keys are strings the same integers stand for the keys in *)
(* their order, and `key + 1` raises TypeError.                            *)
(*                                                                         *)
(* SpecTwin runs a second OrderedSet on the same calls with other          *)
(* priorities; SpecConc takes search, insert and delete of the Treap one   *)
(* field read and one child assignment at a time.                          *)
(***************************************************************************)
EXTENDS Integers, Sequences, FiniteSets, TLC

VARIABLES
    tnodes,   \* Treap: node id -> [key, priority, left, right]
    troot,    \* Treap.root
    onodes,   \* OrderedSet: node id -> [key, priority, size, left, right]
    oroot,    \* OrderedSet.root
    ref,      \* the stress tests' reference container (keys inserted, not deleted)
    created,  \* number of Node objects constructed so far (the newest node's id)
    last,     \* the last insert or delete call: [op, arg, raised]
    ktype,    \* the key type of the run: "num" (int, float) or "str"
    twin,     \* a second OrderedSet given the same calls: [nodes, root]
    conc      \* calls in progress on the Treap, one step at a time

vars == <<tnodes, troot, onodes, oroot, ref, created, last, ktype, twin, conc>>

\* ---------------------------------------------------------------- bounds
MaxKey == 2        \* integer keys are 0 .. MaxKey
MaxPriority == 2   \* random.random() returns one of MaxPriority ordered values
MaxNodes == 4      \* at most MaxNodes Node objects are constructed in a run

\* None: an absent child / empty root, and the value a call returns when it
\* returns nothing.  Node ids start at 1 and keys are >= 0.
Nil == 0
None == 0 - 1

IntKeys == {2 * n : n \in 0 .. MaxKey}
NumKeys == 0 .. (MaxKey + 1)
Priorities == 1 .. MaxPriority
Orders == (0 - 1) .. (MaxKey + 1)

\* `key + 1` is defined for numbers; for a str key it raises TypeError
PlusOneDefined == ktype = "num"

\* delete splitting twice at the same key
KeyPlusOne_Same(key) == key

KeyPlusOne(key) == key + 2

\* ------------------------------------------------------------ treap.py
TNode(key, p) == [key |-> key, priority |-> p, left |-> Nil, right |-> Nil]

\* _split comparing t.key <= key
RECURSIVE TSplit_LessEq(_, _, _)
TSplit_LessEq(h, t, key) ==
    IF t = Nil THEN [h |-> h, l |-> Nil, r |-> Nil]
    ELSE IF h[t].key <= key
         THEN LET s == TSplit_LessEq(h, h[t].right, key)
              IN  [h |-> [s.h EXCEPT ![t].right = s.l], l |-> t, r |-> s.r]
         ELSE LET s == TSplit_LessEq(h, h[t].left, key)
              IN  [h |-> [s.h EXCEPT ![t].left = s.r], l |-> s.l, r |-> t]

RECURSIVE TSplit(_, _, _)
TSplit(h, t, key) ==
    IF t = Nil THEN [h |-> h, l |-> Nil, r |-> Nil]
    ELSE IF h[t].key < key
         THEN LET s == TSplit(h, h[t].right, key)
              IN  [h |-> [s.h EXCEPT ![t].right = s.l], l |-> t, r |-> s.r]
         ELSE LET s == TSplit(h, h[t].left, key)
              IN  [h |-> [s.h EXCEPT ![t].left = s.r], l |-> s.l, r |-> t]

\* _merge attaching t1 as t2.left without merging it with t2.left
RECURSIVE TMerge_NoRecurse(_, _, _)
TMerge_NoRecurse(h, t1, t2) ==
    IF t1 = Nil THEN [h |-> h, t |-> t2]
    ELSE IF t2 = Nil THEN [h |-> h, t |-> t1]
    ELSE IF h[t1].priority > h[t2].priority
         THEN LET m == TMerge_NoRecurse(h, h[t1].right, t2)
              IN  [h |-> [m.h EXCEPT ![t1].right = m.t], t |-> t1]
         ELSE [h |-> [h EXCEPT ![t2].left = t1], t |-> t2]

\* _merge that keeps t1 on top and exchanges the two priorities when t1's
\* is not the greater
RECURSIVE TMerge_SwapPriorities(_, _, _)
TMerge_SwapPriorities(h, t1, t2) ==
    IF t1 = Nil THEN [h |-> h, t |-> t2]
    ELSE IF t2 = Nil THEN [h |-> h, t |-> t1]
    ELSE IF h[t1].priority > h[t2].priority
         THEN LET m == TMerge_SwapPriorities(h, h[t1].right, t2)
              IN  [h |-> [m.h EXCEPT ![t1].right = m.t], t |-> t1]
         ELSE LET hs == [h EXCEPT ![t1].priority = h[t2].priority,
                                  ![t2].priority = h[t1].priority]
                  m  == TMerge_SwapPriorities(hs, hs[t1].right, t2)
              IN  [h |-> [m.h EXCEPT ![t1].right = m.t], t |-> t1]

RECURSIVE TMerge(_, _, _)
TMerge(h, t1, t2) ==
    IF t1 = Nil THEN [h |-> h, t |-> t2]
    ELSE IF t2 = Nil THEN [h |-> h, t |-> t1]
    ELSE IF h[t1].priority > h[t2].priority
         THEN LET m == TMerge(h, h[t1].right, t2)
              IN  [h |-> [m.h EXCEPT ![t1].right = m.t], t |-> t1]
         ELSE LET m == TMerge(h, t1, h[t2].left)
              IN  [h |-> [m.h EXCEPT ![t2].left = m.t], t |-> t2]

RECURSIVE TSearchFrom(_, _, _)
TSearchFrom(h, node, key) ==
    IF node = Nil THEN FALSE
    ELSE IF h[node].key = key THEN TRUE
    ELSE IF key < h[node].key THEN TSearchFrom(h, h[node].left, key)
    ELSE TSearchFrom(h, h[node].right, key)

TSearch(key) == TSearchFrom(tnodes, troot, key)

\* ------------------------------------------------------- ordered_set.py
ONode(key, p) ==
    [key |-> key, priority |-> p, size |-> 1, left |-> Nil, right |-> Nil]

GetSize(h, t) == IF t # Nil THEN h[t].size ELSE 0

\* _update_size leaving out the right subtree
UpdateSize_NoRight(h, t) ==
    IF t # Nil
    THEN [h EXCEPT ![t].size = 1 + GetSize(h, h[t].left)]
    ELSE h

UpdateSize(h, t) ==
    IF t # Nil
    THEN [h EXCEPT ![t].size = 1 + GetSize(h, h[t].left) + GetSize(h, h[t].right)]
    ELSE h

\* _split without its _update_size calls
RECURSIVE OSplit_NoUpdate(_, _, _)
OSplit_NoUpdate(h, t, key) ==
    IF t = Nil THEN [h |-> h, l |-> Nil, r |-> Nil]
    ELSE IF h[t].key < key
         THEN LET s == OSplit_NoUpdate(h, h[t].right, key)
              IN  [h |-> [s.h EXCEPT ![t].right = s.l], l |-> t, r |-> s.r]
         ELSE LET s == OSplit_NoUpdate(h, h[t].left, key)
              IN  [h |-> [s.h EXCEPT ![t].left = s.r], l |-> s.l, r |-> t]

\* _split that leaves root.right as it was when root goes to the left part
RECURSIVE OSplit_NoDetach(_, _, _)
OSplit_NoDetach(h, t, key) ==
    IF t = Nil THEN [h |-> h, l |-> Nil, r |-> Nil]
    ELSE IF h[t].key < key
         THEN LET s == OSplit_NoDetach(h, h[t].right, key)
              IN  [h |-> UpdateSize(s.h, t), l |-> t, r |-> s.r]
         ELSE LET s == OSplit_NoDetach(h, h[t].left, key)
              IN  [h |-> UpdateSize([s.h EXCEPT ![t].left = s.r], t),
                   l |-> s.l, r |-> t]

RECURSIVE OSplit(_, _, _)
OSplit(h, t, key) ==
    IF t = Nil THEN [h |-> h, l |-> Nil, r |-> Nil]
    ELSE IF h[t].key < key
         THEN LET s == OSplit(h, h[t].right, key)
              IN  [h |-> UpdateSize([s.h EXCEPT ![t].right = s.l], t),
                   l |-> t, r |-> s.r]
         ELSE LET s == OSplit(h, h[t].left, key)
              IN  [h |-> UpdateSize([s.h EXCEPT ![t].left = s.r], t),
                   l |-> s.l, r |-> t]

\* _merge taking the root of lower priority
RECURSIVE OMerge_MinHeap(_, _, _)
OMerge_MinHeap(h, t1, t2) ==
    IF t1 = Nil THEN [h |-> h, t |-> t2]
    ELSE IF t2 = Nil THEN [h |-> h, t |-> t1]
    ELSE IF h[t1].priority < h[t2].priority
         THEN LET m == OMerge_MinHeap(h, h[t1].right, t2)
              IN  [h |-> UpdateSize([m.h EXCEPT ![t1].right = m.t], t1), t |-> t1]
         ELSE LET m == OMerge_MinHeap(h, t1, h[t2].left)
              IN  [h |-> UpdateSize([m.h EXCEPT ![t2].left = m.t], t2), t |-> t2]

RECURSIVE OMerge(_, _, _)
OMerge(h, t1, t2) ==
    IF t1 = Nil THEN [h |-> h, t |-> t2]
    ELSE IF t2 = Nil THEN [h |-> h, t |-> t1]
    ELSE IF h[t1].priority > h[t2].priority
         THEN LET m == OMerge(h, h[t1].right, t2)
              IN  [h |-> UpdateSize([m.h EXCEPT ![t1].right = m.t], t1), t |-> t1]
         ELSE LET m == OMerge(h, t1, h[t2].left)
              IN  [h |-> UpdateSize([m.h EXCEPT ![t2].left = m.t], t2), t |-> t2]

RECURSIVE OSearchFrom(_, _, _)
OSearchFrom(h, node, key) ==
    IF node = Nil THEN FALSE
    ELSE IF h[node].key = key THEN TRUE
    ELSE OSearchFrom(h, IF key < h[node].key THEN h[node].left ELSE h[node].right, key)

OSearch(key) == OSearchFrom(onodes, oroot, key)

\* find_by_order with k -= left_size
RECURSIVE FindByOrderFrom_OffByOne(_, _, _)
FindByOrderFrom_OffByOne(h, node, k) ==
    IF node = Nil THEN None
    ELSE LET left_size == GetSize(h, h[node].left)
         IN  IF left_size = k THEN h[node].key
             ELSE IF k < left_size THEN FindByOrderFrom_OffByOne(h, h[node].left, k)
             ELSE FindByOrderFrom_OffByOne(h, h[node].right, k - left_size)

RECURSIVE FindByOrderFrom(_, _, _)
FindByOrderFrom(h, node, k) ==
    IF node = Nil THEN None
    ELSE LET left_size == GetSize(h, h[node].left)
         IN  IF left_size = k THEN h[node].key
             ELSE IF k < left_size THEN FindByOrderFrom(h, h[node].left, k)
             ELSE FindByOrderFrom(h, h[node].right, k - (left_size + 1))

FindByOrder(k) == FindByOrderFrom(onodes, oroot, k)

\* What a find_by_order(k) call gives its caller: the method has no raise
\* statement and reads only fields of nodes that exist, so it always
\* returns, a key or None.
FindByOrderOutcome(k) == [raised |-> FALSE, value |-> FindByOrder(k)]

\* order_of_key not counting the node it passes when going right
RECURSIVE OrderOfKeyFrom_NoSelf(_, _, _, _)
OrderOfKeyFrom_NoSelf(h, node, key, count) ==
    IF node = Nil THEN count
    ELSE IF key = h[node].key THEN count + GetSize(h, h[node].left)
    ELSE IF key < h[node].key THEN OrderOfKeyFrom_NoSelf(h, h[node].left, key, count)
    ELSE OrderOfKeyFrom_NoSelf(h, h[node].right, key,
                               count + GetSize(h, h[node].left))

RECURSIVE OrderOfKeyFrom(_, _, _, _)
OrderOfKeyFrom(h, node, key, count) ==
    IF node = Nil THEN count
    ELSE IF key = h[node].key THEN count + GetSize(h, h[node].left)
    ELSE IF key < h[node].key THEN OrderOfKeyFrom(h, h[node].left, key, count)
    ELSE OrderOfKeyFrom(h, h[node].right, key,
                        count + GetSize(h, h[node].left) + 1)

OrderOfKey(key) == OrderOfKeyFrom(onodes, oroot, key, 0)

SetLen == GetSize(onodes, oroot)

\* ------------------------------------------------- object reachability
\* The node objects reachable from t: the others have no reference left
\* and are reclaimed.
RECURSIVE Reach(_, _)
Reach(h, t) ==
    IF t = Nil THEN {}
    ELSE {t} \cup Reach(h, h[t].left) \cup Reach(h, h[t].right)

Live(h, t) == [n \in Reach(h, t) |-> h[n]]

\* insert without the search for a duplicate
TInsert_NoSearch(h, root, key, id, p) ==
    LET h0 == [n \in DOMAIN h \cup {id} |-> IF n = id THEN TNode(key, p) ELSE h[n]]
        s  == TSplit(h0, root, key)
        m1 == TMerge(s.h, id, s.r)
    IN  TMerge(m1.h, s.l, m1.t)

\* Treap.insert / Treap.delete: the store and root they leave
TInsert(h, root, key, id, p) ==
    IF TSearchFrom(h, root, key) THEN [h |-> h, t |-> root]
    ELSE LET h0 == [n \in DOMAIN h \cup {id} |-> IF n = id THEN TNode(key, p) ELSE h[n]]
             s  == TSplit(h0, root, key)
             m1 == TMerge(s.h, id, s.r)
         IN  TMerge(m1.h, s.l, m1.t)

\* delete merging r_prime before l
TDelete_Swapped(h, root, key) ==
    IF ~TSearchFrom(h, root, key) THEN [h |-> h, t |-> root, raised |-> FALSE]
    ELSE LET s1 == TSplit(h, root, key)
             s2 == TSplit(s1.h, s1.r, KeyPlusOne(key))
             m  == TMerge(s2.h, s2.r, s1.l)
         IN  IF ~PlusOneDefined
             THEN [h |-> s1.h, t |-> root, raised |-> TRUE]
             ELSE [h |-> m.h, t |-> m.t, raised |-> FALSE]

\* The first _split has rewritten the nodes when `key + 1` is evaluated: if
\* that raises, self.root is not assigned and the nodes stay as split.
TDelete(h, root, key) ==
    IF ~TSearchFrom(h, root, key) THEN [h |-> h, t |-> root, raised |-> FALSE]
    ELSE LET s1 == TSplit(h, root, key)
             s2 == TSplit(s1.h, s1.r, KeyPlusOne(key))
             m  == TMerge(s2.h, s1.l, s2.r)
         IN  IF ~PlusOneDefined
             THEN [h |-> s1.h, t |-> root, raised |-> TRUE]
             ELSE [h |-> m.h, t |-> m.t, raised |-> FALSE]

\* insert merging the new node before l
OInsert_NewFirst(h, root, key, id, p) ==
    IF OSearchFrom(h, root, key) THEN [h |-> h, t |-> root]
    ELSE LET h0 == [n \in DOMAIN h \cup {id} |-> IF n = id THEN ONode(key, p) ELSE h[n]]
             s  == OSplit(h0, root, key)
             m1 == OMerge(s.h, id, s.l)
         IN  OMerge(m1.h, m1.t, s.r)

\* OrderedSet.insert / OrderedSet.delete: the store and root they leave
OInsert(h, root, key, id, p) ==
    IF OSearchFrom(h, root, key) THEN [h |-> h, t |-> root]
    ELSE LET h0 == [n \in DOMAIN h \cup {id} |-> IF n = id THEN ONode(key, p) ELSE h[n]]
             s  == OSplit(h0, root, key)
             m1 == OMerge(s.h, s.l, id)
         IN  OMerge(m1.h, m1.t, s.r)

\* delete without the search for the key, dropping the keys in [key, key + 2)
ODelete_NoSearchWide(h, root, key) ==
    LET s1 == OSplit(h, root, key)
        s2 == OSplit(s1.h, s1.r, KeyPlusOne(KeyPlusOne(key)))
        m  == OMerge(s2.h, s1.l, s2.r)
    IN  [h |-> m.h, t |-> m.t, raised |-> FALSE]

ODelete(h, root, key) ==
    IF ~OSearchFrom(h, root, key) THEN [h |-> h, t |-> root, raised |-> FALSE]
    ELSE LET s1 == OSplit(h, root, key)
             s2 == OSplit(s1.h, s1.r, KeyPlusOne(key))
             m  == OMerge(s2.h, s1.l, s2.r)
         IN  IF ~PlusOneDefined
             THEN [h |-> s1.h, t |-> root, raised |-> TRUE]
             ELSE [h |-> m.h, t |-> m.t, raised |-> FALSE]

\* ------------------------------------------------------------- actions
\* No call is in progress: the calls of the specifications above run from
\* start to end in one step.  conc.mut is the insert or delete call whose
\* writes are taken one at a time, conc.search the search call whose reads
\* are.
Idle ==
    [mut    |-> [phase |-> "idle", op |-> "none", key |-> None,
                 writes |-> << >>, root |-> Nil],
     search |-> [phase |-> "idle", key |-> None, node |-> Nil,
                 result |-> FALSE, member |-> FALSE, overlap |-> FALSE]]

Init ==
    /\ tnodes = << >>
    /\ troot = Nil
    /\ onodes = << >>
    /\ oroot = Nil
    /\ ref = {}
    /\ created = 0
    /\ last = [op |-> "init", arg |-> None, raised |-> FALSE]
    /\ ktype = "num"
    /\ twin = [nodes |-> << >>, root |-> Nil]
    /\ conc = Idle

\* insert(key) on both containers; when a Node is constructed p is the value
\* random.random() returns and the node's id is the construction count.
InsertBoth(key, p) ==
    /\ LET id == created + 1
           tr == TInsert(tnodes, troot, key, id, p)
           or == OInsert(onodes, oroot, key, id, p)
       IN  /\ tnodes' = Live(tr.h, tr.t)
           /\ troot' = tr.t
           /\ onodes' = Live(or.h, or.t)
           /\ oroot' = or.t
           /\ created' = IF id \in DOMAIN tr.h \/ id \in DOMAIN or.h
                         THEN id ELSE created
    /\ ref' = ref \cup {key}
    /\ last' = [op |-> "insert", arg |-> key, raised |-> FALSE]
    /\ UNCHANGED ktype

InsertWith(key, p) == InsertBoth(key, p) /\ UNCHANGED <<twin, conc>>

\* No Node is constructed and random.random() is not called when
\* search(key) is True (the priority argument is then unused).
InsertCall(key) ==
    IF TSearch(key) /\ OSearch(key)
    THEN InsertWith(key, 1)
    ELSE \E p \in Priorities : InsertWith(key, p)

Insert(key) ==
    /\ (TSearch(key) /\ OSearch(key)) \/ created < MaxNodes
    /\ InsertCall(key)

\* delete(key) on both containers; the nodes it leaves without a reference
\* are reclaimed.  When it raises, the caller's reference container is not
\* updated.
DeleteBoth(key) ==
    /\ LET tr == TDelete(tnodes, troot, key)
           or == ODelete(onodes, oroot, key)
       IN  /\ tnodes' = Live(tr.h, tr.t)
           /\ troot' = tr.t
           /\ onodes' = Live(or.h, or.t)
           /\ oroot' = or.t
           /\ ref' = IF tr.raised \/ or.raised THEN ref ELSE ref \ {key}
           /\ last' = [op |-> "delete", arg |-> key,
                       raised |-> tr.raised \/ or.raised]
    /\ UNCHANGED <<created, ktype>>

Delete(key) == DeleteBoth(key) /\ UNCHANGED <<twin, conc>>

\* The queries return a value and write nothing.
Search(key) ==
    /\ TSearch(key) \in BOOLEAN
    /\ OSearch(key) \in BOOLEAN
    /\ UNCHANGED vars

FindByOrderCall(k) ==
    /\ FindByOrder(k) \in Int
    /\ UNCHANGED vars

OrderOfKeyCall(key) ==
    /\ OrderOfKey(key) \in Nat
    /\ UNCHANGED vars

LenCall ==
    /\ SetLen \in Nat
    /\ UNCHANGED vars

\* Integer keys, as the stress tests draw them.
Next ==
    \/ \E key \in IntKeys : Insert(key)
    \/ \E key \in IntKeys : Delete(key)
    \/ \E key \in IntKeys : Search(key)
    \/ \E k \in Orders : FindByOrderCall(k)
    \/ \E key \in IntKeys : OrderOfKeyCall(key)
    \/ LenCall

Spec == Init /\ [][Next]_vars

\* Non-integer numeric keys as well (1 and 1.5 in the same tree).
NextNum ==
    \/ \E key \in NumKeys : Insert(key)
    \/ \E key \in NumKeys : Delete(key)
    \/ \E key \in NumKeys : Search(key)
    \/ \E k \in Orders : FindByOrderCall(k)
    \/ \E key \in NumKeys : OrderOfKeyCall(key)
    \/ LenCall

SpecNum == Init /\ [][NextNum]_vars

\* String keys: the same calls on containers whose keys are strings.
InitStr ==
    /\ tnodes = << >>
    /\ troot = Nil
    /\ onodes = << >>
    /\ oroot = Nil
    /\ ref = {}
    /\ created = 0
    /\ last = [op |-> "init", arg |-> None, raised |-> FALSE]
    /\ ktype = "str"
    /\ twin = [nodes |-> << >>, root |-> Nil]
    /\ conc = Idle

SpecStr == InitStr /\ [][Next]_vars

\* Runs made of insert calls alone.  The shape of a tree is fixed by its
\* keys and priorities (_merge puts the right root on top of an equal
\* priority), so these runs build every tree that runs with deletes build;
\* they supply the trees that _split and _merge are applied to as functions.
NextInsertOnly == \E key \in IntKeys : Insert(key)

SpecInsertOnly == Init /\ [][NextInsertOnly]_vars

\* Runs of the calls that write: the queries change nothing, so these runs
\* reach the states of Spec.
NextMutators ==
    \/ \E key \in IntKeys : Insert(key)
    \/ \E key \in IntKeys : Delete(key)

SpecMutators == Init /\ [][NextMutators]_vars

\* Two runs of the same calls: the OrderedSet above draws any p, the twin
\* OrderedSet draws the lowest value every time.  Two runs that each give
\* the results of the twin's run give the same results as each other.
TwinPriority == CHOOSE q \in Priorities : \A r \in Priorities : q <= r

TwinInsert(key) ==
    /\ (OSearch(key) /\ OSearchFrom(twin.nodes, twin.root, key))
          \/ created < MaxNodes
    /\ LET or == OInsert(twin.nodes, twin.root, key, created + 1,
                         TwinPriority)
       IN  twin' = [nodes |-> Live(or.h, or.t), root |-> or.t]
    /\ IF OSearch(key) THEN InsertBoth(key, TwinPriority)
       ELSE \E p \in Priorities : InsertBoth(key, p)
    /\ UNCHANGED conc

TwinDelete(key) ==
    /\ DeleteBoth(key)
    /\ LET or == ODelete(twin.nodes, twin.root, key)
       IN  twin' = [nodes |-> Live(or.h, or.t), root |-> or.t]
    /\ UNCHANGED conc

\* the queries of both runs return a value and write nothing
TwinQuery ==
    /\ \A key \in IntKeys :
          /\ OSearchFrom(twin.nodes, twin.root, key) \in BOOLEAN
          /\ OrderOfKeyFrom(twin.nodes, twin.root, key, 0) \in Nat
    /\ \A k \in Orders : FindByOrderFrom(twin.nodes, twin.root, k) \in Int
    /\ GetSize(twin.nodes, twin.root) \in Nat
    /\ UNCHANGED vars

NextTwin ==
    \/ \E key \in IntKeys : TwinInsert(key)
    \/ \E key \in IntKeys : TwinDelete(key)
    \/ TwinQuery

SpecTwin == Init /\ [][NextTwin]_vars

\* ------------------------------------------- calls taken step by step
\* The assignments to child fields that _split(t, key) and _merge(t1, t2)
\* make, in the order they are executed: each call assigns after the call
\* it makes has returned.  h is the store when the call starts.
RECURSIVE SplitWrites(_, _, _)
SplitWrites(h, t, key) ==
    IF t = Nil THEN << >>
    ELSE IF h[t].key < key
         THEN Append(SplitWrites(h, h[t].right, key),
                     [node |-> t, field |-> "right",
                      val |-> TSplit(h, h[t].right, key).l])
         ELSE Append(SplitWrites(h, h[t].left, key),
                     [node |-> t, field |-> "left",
                      val |-> TSplit(h, h[t].left, key).r])

RECURSIVE MergeWrites(_, _, _)
MergeWrites(h, t1, t2) ==
    IF t1 = Nil \/ t2 = Nil THEN << >>
    ELSE IF h[t1].priority > h[t2].priority
         THEN Append(MergeWrites(h, h[t1].right, t2),
                     [node |-> t1, field |-> "right",
                      val |-> TMerge(h, h[t1].right, t2).t])
         ELSE Append(MergeWrites(h, t1, h[t2].left),
                     [node |-> t2, field |-> "left",
                      val |-> TMerge(h, t1, h[t2].left).t])

\* Treap.insert(key) for an absent key, after Node(key) was constructed
\* as node id of h: the writes of the split and of the two merges, and the
\* root assigned at the end
InsertWrites(h, root, key, id) ==
    LET s  == TSplit(h, root, key)
        m1 == TMerge(s.h, id, s.r)
        m  == TMerge(m1.h, s.l, m1.t)
    IN  [writes |-> SplitWrites(h, root, key)
                      \o MergeWrites(s.h, id, s.r)
                      \o MergeWrites(m1.h, s.l, m1.t),
         root |-> m.t]

\* Treap.delete(key) for a present key
DeleteWrites(h, root, key) ==
    LET s1 == TSplit(h, root, key)
        s2 == TSplit(s1.h, s1.r, KeyPlusOne(key))
        m  == TMerge(s2.h, s1.l, s2.r)
    IN  [writes |-> SplitWrites(h, root, key)
                      \o SplitWrites(s1.h, s1.r, KeyPlusOne(key))
                      \o MergeWrites(s2.h, s1.l, s2.r),
         root |-> m.t]

\* one assignment `node.left = val` or `node.right = val`
ApplyWrite(h, w) ==
    IF w.field = "left" THEN [h EXCEPT ![w.node].left = w.val]
    ELSE [h EXCEPT ![w.node].right = w.val]

\* the node the loop of Treap.search moves to from node
SearchNext_Swapped(h, node, key) ==
    IF key < h[node].key THEN h[node].right ELSE h[node].left

SearchNext(h, node, key) ==
    IF key < h[node].key THEN h[node].left ELSE h[node].right

\* The trees the calls run on are built first, by whole insert calls in
\* ascending key order (every shape is built that way).
ConcBuild(key) ==
    /\ conc = Idle
    /\ \A k \in ref : k < key
    /\ Insert(key)

\* insert(key) starts: its own search runs, and Node(key) is constructed
\* when the key is absent.  The call is over at once when the key is there.
MutInsertBegin(key) ==
    /\ conc.mut.phase = "idle"
    /\ IF TSearch(key)
       THEN /\ conc' = [conc EXCEPT !.mut.phase = "done", !.mut.op = "insert",
                                    !.mut.key = key, !.mut.root = troot]
            /\ UNCHANGED <<tnodes, created>>
       ELSE /\ created < MaxNodes
            /\ \E p \in Priorities :
                  LET id == created + 1
                      h0 == [n \in DOMAIN tnodes \cup {id} |->
                               IF n = id THEN TNode(key, p) ELSE tnodes[n]]
                      iw == InsertWrites(h0, troot, key, id)
                  IN  /\ tnodes' = h0
                      /\ created' = id
                      /\ conc' = [conc EXCEPT
                             !.mut = [phase |-> "running", op |-> "insert",
                                      key |-> key, writes |-> iw.writes,
                                      root |-> iw.root],
                             !.search.overlap =
                                 @ \/ conc.search.phase = "running"]
    /\ UNCHANGED <<troot, onodes, oroot, ref, last, ktype, twin>>

\* delete(key) starts: its own search runs; the call is over at once when
\* the key is absent.
MutDeleteBegin(key) ==
    /\ conc.mut.phase = "idle"
    /\ IF ~TSearch(key)
       THEN conc' = [conc EXCEPT !.mut.phase = "done", !.mut.op = "delete",
                                 !.mut.key = key, !.mut.root = troot]
       ELSE LET dw == DeleteWrites(tnodes, troot, key)
            IN  conc' = [conc EXCEPT
                    !.mut = [phase |-> "running", op |-> "delete",
                             key |-> key, writes |-> dw.writes,
                             root |-> dw.root],
                    !.search.overlap = @ \/ conc.search.phase = "running"]
    /\ UNCHANGED <<tnodes, troot, onodes, oroot, ref, created, last, ktype, twin>>

\* the next child-field assignment of the call in progress
MutWrite ==
    /\ conc.mut.phase = "running"
    /\ conc.mut.writes # << >>
    /\ tnodes' = ApplyWrite(tnodes, Head(conc.mut.writes))
    /\ conc' = [conc EXCEPT !.mut.writes = Tail(@)]
    /\ UNCHANGED <<troot, onodes, oroot, ref, created, last, ktype, twin>>

\* self.root = _merge(...): the last step of the call in progress
MutAssignRoot ==
    /\ conc.mut.phase = "running"
    /\ conc.mut.writes = << >>
    /\ troot' = conc.mut.root
    /\ ref' = IF conc.mut.op = "insert" THEN ref \cup {conc.mut.key}
              ELSE ref \ {conc.mut.key}
    /\ conc' = [conc EXCEPT !.mut.phase = "done"]
    /\ UNCHANGED <<tnodes, onodes, oroot, created, last, ktype, twin>>

\* search(key) starts: node = self.root
SearchBegin(key) ==
    /\ conc.search.phase = "idle"
    /\ conc' = [conc EXCEPT
           !.search = [phase |-> "running", key |-> key, node |-> troot,
                       result |-> FALSE,
                       member |-> \E n \in Reach(tnodes, troot) :
                                      tnodes[n].key = key,
                       overlap |-> conc.mut.phase = "running"]]
    /\ UNCHANGED <<tnodes, troot, onodes, oroot, ref, created, last, ktype, twin>>

\* one turn of the loop of search: return, or read one child field
SearchStep ==
    /\ conc.search.phase = "running"
    /\ LET node == conc.search.node
           key  == conc.search.key
           ov   == conc.search.overlap \/ conc.mut.phase = "running"
       IN  conc' =
             IF node = Nil
             THEN [conc EXCEPT !.search.phase = "done",
                               !.search.result = FALSE]
             ELSE IF tnodes[node].key = key
             THEN [conc EXCEPT !.search.phase = "done",
                               !.search.result = TRUE]
             ELSE [conc EXCEPT !.search.node = SearchNext(tnodes, node, key),
                               !.search.overlap = ov]
    /\ UNCHANGED <<tnodes, troot, onodes, oroot, ref, created, last, ktype, twin>>

NextConc ==
    \/ \E key \in IntKeys : ConcBuild(key)
    \/ \E key \in IntKeys : MutInsertBegin(key)
    \/ \E key \in IntKeys : MutDeleteBegin(key)
    \/ MutWrite
    \/ MutAssignRoot
    \/ \E key \in IntKeys : SearchBegin(key)
    \/ SearchStep

SpecConc == Init /\ [][NextConc]_vars

\* ------------------------------------------------ nodes visited by a call
\* The number of nodes the loops of search, find_by_order and order_of_key
\* visit (turns of `while node`), and the number of nested calls of _split
\* and _merge that go on to call themselves (the calls on a node, not the
\* call that returns at once).
RECURSIVE SearchVisits(_, _, _)
SearchVisits(h, node, key) ==
    IF node = Nil THEN 0
    ELSE IF h[node].key = key THEN 1
    ELSE 1 + SearchVisits(h, IF key < h[node].key THEN h[node].left
                             ELSE h[node].right, key)

\* find_by_order walking the whole left subtree instead of reading its size
RECURSIVE FindByOrderVisits_Linear(_, _, _)
FindByOrderVisits_Linear(h, node, k) ==
    IF node = Nil THEN 0
    ELSE LET left_size == GetSize(h, h[node].left)
         IN  IF left_size = k THEN 1 + left_size
             ELSE IF k < left_size
                  THEN 1 + FindByOrderVisits_Linear(h, h[node].left, k)
             ELSE 1 + left_size
                    + FindByOrderVisits_Linear(h, h[node].right,
                                               k - (left_size + 1))

RECURSIVE FindByOrderVisits(_, _, _)
FindByOrderVisits(h, node, k) ==
    IF node = Nil THEN 0
    ELSE LET left_size == GetSize(h, h[node].left)
         IN  IF left_size = k THEN 1
             ELSE IF k < left_size
                  THEN 1 + FindByOrderVisits(h, h[node].left, k)
             ELSE 1 + FindByOrderVisits(h, h[node].right, k - (left_size + 1))

RECURSIVE OrderOfKeyVisits(_, _, _)
OrderOfKeyVisits(h, node, key) ==
    IF node = Nil THEN 0
    ELSE IF key = h[node].key THEN 1
    ELSE IF key < h[node].key THEN 1 + OrderOfKeyVisits(h, h[node].left, key)
    ELSE 1 + OrderOfKeyVisits(h, h[node].right, key)

RECURSIVE SplitDepth(_, _, _)
SplitDepth(h, t, key) ==
    IF t = Nil THEN 0
    ELSE IF h[t].key < key THEN 1 + SplitDepth(h, h[t].right, key)
    ELSE 1 + SplitDepth(h, h[t].left, key)

RECURSIVE MergeDepth(_, _, _)
MergeDepth(h, t1, t2) ==
    IF t1 = Nil \/ t2 = Nil THEN 0
    ELSE IF h[t1].priority > h[t2].priority
         THEN 1 + MergeDepth(h, h[t1].right, t2)
         ELSE 1 + MergeDepth(h, t1, h[t2].left)

\* The seven inserts of the concrete scenario, in order, into the empty
\* containers; `created` is the number of inserts done so far.
Scenario == <<5, 3, 8, 1, 4, 7, 9>>

TraceInsert ==
    /\ created < Len(Scenario)
    /\ InsertCall(2 * Scenario[created + 1])

NextTrace == TraceInsert

SpecTrace == Init /\ [][NextTrace]_vars

\* ----------------------------------------------------- what is checked
\* In-order traversal of the tree rooted at t.
RECURSIVE InOrder(_, _)
InOrder(h, t) ==
    IF t = Nil THEN << >>
    ELSE InOrder(h, h[t].left) \o <<h[t].key>> \o InOrder(h, h[t].right)

SeqRange(s) == {s[i] : i \in 1 .. Len(s)}
StrictlyIncreasing(s) == \A i \in 1 .. Len(s) - 1 : s[i] < s[i + 1]

KeysOf(h, t) == {h[n].key : n \in Reach(h, t)}
NodeCount(h, t) == Cardinality(Reach(h, t))

\* the k-th smallest (0-indexed) of a set of keys, and the rank of x in it
KthOf(S, k) == CHOOSE x \in S : Cardinality({y \in S : y < x}) = k
RankIn(S, x) == Cardinality({y \in S : y < x})

BSTInv(h, t) ==
    \A n \in Reach(h, t) :
        /\ \A m \in Reach(h, h[n].left) : h[m].key < h[n].key
        /\ \A m \in Reach(h, h[n].right) : h[m].key > h[n].key

UniqueKeys(h, t) ==
    \A n, m \in Reach(h, t) : h[n].key = h[m].key => n = m

HeapInv(h, t) ==
    \A n \in Reach(h, t) :
        /\ h[n].left # Nil => h[n].priority >= h[h[n].left].priority
        /\ h[n].right # Nil => h[n].priority >= h[h[n].right].priority

SizeInv(h, t) ==
    \A n \in Reach(h, t) :
        h[n].size = 1 + GetSize(h, h[n].left) + GetSize(h, h[n].right)

\* a delete has removed a node in this run
SomeDeleted == created > Cardinality(ref)

\* C1: after any sequence of inserts and deletes, search(x) is True exactly
\* when x is in the reference set, which is exactly when x appears in the
\* in-order traversal, for every x of the key range, in both containers.
C1_SearchIffMember ==
    \A x \in IntKeys :
        /\ TSearch(x) = (x \in ref)
        /\ OSearch(x) = (x \in ref)
        /\ TSearch(x) = (x \in SeqRange(InOrder(tnodes, troot)))
        /\ OSearch(x) = (x \in SeqRange(InOrder(onodes, oroot)))

C1_Witness ==
    /\ last.op = "delete" /\ last.arg \notin ref
    /\ ~TSearch(last.arg) /\ ~OSearch(last.arg)
    /\ Cardinality(ref) = 2
    /\ \A x \in ref : TSearch(x) /\ OSearch(x)
    /\ \E x \in IntKeys : x \notin ref /\ ~TSearch(x) /\ ~OSearch(x)

\* C2: for every k with 0 <= k < len(set), find_by_order(k) is the element at
\* index k of the sorted reference list, and is not None.
C2_FindByOrderKth ==
    \A k \in 0 .. SetLen - 1 :
        /\ k < Cardinality(ref)
        /\ FindByOrder(k) # None
        /\ FindByOrder(k) = KthOf(ref, k)

C2_Witness ==
    /\ SetLen = 3 /\ SomeDeleted
    /\ FindByOrder(2) = KthOf(ref, 2)
    /\ FindByOrder(2) # onodes[oroot].key
    /\ FindByOrder(0) # onodes[oroot].key

\* C3: for every key x, in the set or not, order_of_key(x) is the number of
\* keys of the set strictly smaller than x, so it lies in [0, len(set)].
C3_OrderOfKeyRank ==
    \A x \in IntKeys \cup {2 * MaxKey + 2} :
        /\ OrderOfKey(x) = RankIn(ref, x)
        /\ OrderOfKey(x) \in 0 .. SetLen

C3_Witness ==
    /\ SomeDeleted
    /\ \E x \in IntKeys : x \notin ref /\ OrderOfKey(x) = 2 /\ SetLen = 2
    /\ \E x \in ref : OrderOfKey(x) = 1

\* C4: after every insert or delete, len(set) is the number of nodes
\* reachable from the root, which is the number of distinct keys inserted
\* and not deleted since.
C4_LenIsNodeCount ==
    /\ SetLen = NodeCount(onodes, oroot)
    /\ SetLen = Cardinality(ref)

C4_Witness ==
    /\ last.op = "delete" /\ last.arg \notin ref
    /\ SetLen = 2 /\ NodeCount(onodes, oroot) = 2 /\ created >= 3

\* C5: in every reachable state, for every node the keys of its left subtree
\* are smaller and the keys of its right subtree larger than its key; the
\* in-order traversal is strictly increasing and no two nodes share a key.
C5_BSTAndUnique ==
    /\ BSTInv(tnodes, troot) /\ BSTInv(onodes, oroot)
    /\ StrictlyIncreasing(InOrder(tnodes, troot))
    /\ StrictlyIncreasing(InOrder(onodes, oroot))
    /\ UniqueKeys(tnodes, troot) /\ UniqueKeys(onodes, oroot)

C5_Witness ==
    /\ NodeCount(tnodes, troot) = 3 /\ NodeCount(onodes, oroot) = 3
    /\ tnodes[troot].left # Nil /\ tnodes[troot].right # Nil
    /\ SomeDeleted

\* C6: every node reachable from the root has size = 1 + size(left) +
\* size(right), with size(None) = 0; so do both trees _split returns and the
\* tree _merge returns, for inputs that satisfy it.
C6_SizeInvariant ==
    /\ SizeInv(onodes, oroot)
    /\ \A x \in IntKeys \cup {2 * MaxKey + 2} :
           LET s == OSplit(onodes, oroot, x)
               m == OMerge(s.h, s.l, s.r)
           IN  /\ SizeInv(s.h, s.l) /\ SizeInv(s.h, s.r)
               /\ SizeInv(m.h, m.t)
               /\ GetSize(s.h, s.l) + GetSize(s.h, s.r) = SetLen
               /\ GetSize(m.h, m.t) = SetLen

C6_Witness ==
    /\ SetLen = 3 /\ SomeDeleted
    /\ \E x \in IntKeys :
           LET s == OSplit(onodes, oroot, x)
           IN  /\ GetSize(s.h, s.l) = 1 /\ GetSize(s.h, s.r) = 2
               /\ s.h[oroot].size < onodes[oroot].size

\* C7: every node's priority is greater than or equal to the priority of
\* its left child and of its right child, whatever priorities are drawn.
C7_HeapInvariant ==
    HeapInv(tnodes, troot) /\ HeapInv(onodes, oroot)

C7_Witness ==
    /\ NodeCount(tnodes, troot) = 3 /\ SomeDeleted
    /\ \E n \in Reach(onodes, oroot) :
           onodes[n].left # Nil /\ onodes[n].priority > onodes[onodes[n].left].priority
    /\ \E n \in Reach(tnodes, troot) :
           tnodes[n].left # Nil /\ tnodes[n].priority = tnodes[tnodes[n].left].priority


\* the invariants of one container after a call
TreapWellFormed(h, t) == BSTInv(h, t) /\ UniqueKeys(h, t) /\ HeapInv(h, t)
SetWellFormed(h, t) == TreapWellFormed(h, t) /\ SizeInv(h, t)

\* C8: insert(x) with x not in the tree yields the old key set plus x, a
\* size one greater, and a tree that satisfies the BST, heap and size
\* invariants; no other key is added or lost.
C8_InsertAbsent ==
    [][\A x \in IntKeys :
         (last'.op = "insert" /\ last'.arg = x) =>
            /\ x \notin KeysOf(tnodes, troot) =>
                  /\ KeysOf(tnodes', troot') = KeysOf(tnodes, troot) \cup {x}
                  /\ NodeCount(tnodes', troot') = NodeCount(tnodes, troot) + 1
                  /\ TreapWellFormed(tnodes', troot')
            /\ x \notin KeysOf(onodes, oroot) =>
                  /\ KeysOf(onodes', oroot') = KeysOf(onodes, oroot) \cup {x}
                  /\ NodeCount(onodes', oroot') = NodeCount(onodes, oroot) + 1
                  /\ GetSize(onodes', oroot') = GetSize(onodes, oroot) + 1
                  /\ SetWellFormed(onodes', oroot')]_vars

C8_Witness ==
    /\ last.op = "insert" /\ created = 4 /\ onodes[created].key = last.arg
    /\ SetLen = 3 /\ NodeCount(tnodes, troot) = 3
    /\ oroot # created /\ troot # created

\* C9: for integer keys, delete(x) with x in the tree yields the old key set
\* minus x, a size one less, no reachable node holding x, and a tree that
\* satisfies the BST, heap and size invariants; every other key remains.
C9_DeletePresent ==
    [][\A x \in IntKeys :
         (last'.op = "delete" /\ last'.arg = x) =>
            /\ x \in KeysOf(tnodes, troot) =>
                  /\ KeysOf(tnodes', troot') = KeysOf(tnodes, troot) \ {x}
                  /\ NodeCount(tnodes', troot') = NodeCount(tnodes, troot) - 1
                  /\ \A n \in Reach(tnodes', troot') : tnodes'[n].key # x
                  /\ TreapWellFormed(tnodes', troot')
            /\ x \in KeysOf(onodes, oroot) =>
                  /\ KeysOf(onodes', oroot') = KeysOf(onodes, oroot) \ {x}
                  /\ NodeCount(onodes', oroot') = NodeCount(onodes, oroot) - 1
                  /\ GetSize(onodes', oroot') = GetSize(onodes, oroot) - 1
                  /\ \A n \in Reach(onodes', oroot') : onodes'[n].key # x
                  /\ SetWellFormed(onodes', oroot')]_vars

C9_Witness ==
    /\ last.op = "delete" /\ last.arg \notin ref
    /\ created = 3 /\ SetLen = 2 /\ NodeCount(tnodes, troot) = 2
    /\ \E a, b \in ref : a < last.arg /\ last.arg < b

\* C10: for numeric keys that are not all integers (1 and 1.5 in one tree),
\* delete(x) of a present key x removes exactly one node, the one holding x,
\* and every other key of the tree remains present afterwards.
C10_DeleteRemovesOneNode ==
    [][\A x \in NumKeys :
         (last'.op = "delete" /\ last'.arg = x) =>
            /\ x \in KeysOf(tnodes, troot) =>
                  /\ KeysOf(tnodes', troot') = KeysOf(tnodes, troot) \ {x}
                  /\ NodeCount(tnodes', troot') = NodeCount(tnodes, troot) - 1
            /\ x \in KeysOf(onodes, oroot) =>
                  /\ KeysOf(onodes', oroot') = KeysOf(onodes, oroot) \ {x}
                  /\ NodeCount(onodes', oroot') = NodeCount(onodes, oroot) - 1]_vars


\* C11: find_by_order(k) with k outside [0, len(set)) (k < 0, k >= len(set),
\* any k on an empty set) reports an out-of-range error instead of returning
\* to the caller as if the call had succeeded.
C11_OutOfRangeRejected ==
    \A k \in Orders :
        (k < 0 \/ k >= SetLen) => FindByOrderOutcome(k).raised

\* C12: with keys of a totally ordered type on which `key + 1` is not
\* defined, no insert or delete call raises an error (search and
\* order_of_key only compare keys).
C12_NoOperationRaises ==
    /\ ~last.raised
    /\ \A x \in IntKeys : OSearch(x) \in BOOLEAN /\ OrderOfKey(x) \in Nat

\* C13: insert(x) with x already in the tree is a no-op: the root reference
\* and every node's key, priority, left, right and size are unchanged, no
\* node is created and no error is raised; so the key set and the size
\* after a second insert(x) are those after the first.
C13_InsertPresentNoOp ==
    [][\A x \in IntKeys :
         (last'.op = "insert" /\ last'.arg = x) =>
            /\ x \in KeysOf(tnodes, troot) =>
                  /\ troot' = troot /\ tnodes' = tnodes
                  /\ KeysOf(tnodes', troot') = KeysOf(tnodes, troot)
            /\ x \in KeysOf(onodes, oroot) =>
                  /\ oroot' = oroot /\ onodes' = onodes
                  /\ KeysOf(onodes', oroot') = KeysOf(onodes, oroot)
                  /\ GetSize(onodes', oroot') = GetSize(onodes, oroot)
            /\ (x \in KeysOf(tnodes, troot) /\ x \in KeysOf(onodes, oroot)) =>
                  created' = created
            /\ ~last'.raised]_vars

\* the last call was insert(x) and the node holding x is not the newest
\* one: that insert found x and constructed nothing
C13_Witness ==
    /\ last.op = "insert" /\ ~last.raised
    /\ SetLen = 3
    /\ \E n \in Reach(onodes, oroot) : onodes[n].key = last.arg /\ n < created
    /\ \E n \in Reach(tnodes, troot) : tnodes[n].key = last.arg /\ n < created
    /\ onodes[created].key # last.arg

\* C14: delete(x) with x not in the tree is a no-op: the root reference and
\* every node's key, priority, left, right and size are unchanged, and no
\* error is raised.
C14_DeleteAbsentNoOp ==
    [][\A x \in IntKeys :
         (last'.op = "delete" /\ last'.arg = x) =>
            /\ x \notin KeysOf(tnodes, troot) =>
                  troot' = troot /\ tnodes' = tnodes
            /\ x \notin KeysOf(onodes, oroot) =>
                  /\ oroot' = oroot /\ onodes' = onodes
                  /\ GetSize(onodes', oroot') = GetSize(onodes, oroot)
            /\ ~last'.raised]_vars

\* the last call was a delete and no node was ever removed in this run
C14_Witness ==
    /\ last.op = "delete" /\ ~last.raised
    /\ ~SomeDeleted
    /\ SetLen = 2 /\ NodeCount(tnodes, troot) = 2
    /\ \E a, b \in ref : a < last.arg /\ last.arg < b

\* the keys _split and _merge are tried with: integers, halves, and a key
\* above every key of the tree
SplitKeys == 0 .. (2 * MaxKey + 2)

NodesBelow(h, t, x) == {n \in Reach(h, t) : h[n].key < x}
NodesFrom(h, t, x) == {n \in Reach(h, t) : h[n].key >= x}

\* no node's key or priority differs between two stores
SameKeysAndPriorities(h1, h2) ==
    \A n \in DOMAIN h1 \cap DOMAIN h2 :
        h1[n].key = h2[n].key /\ h1[n].priority = h2[n].priority

\* C15: for every tree the containers build (BST, heap and size invariants
\* hold) and every key value, _split(t, key) returns l holding exactly the
\* nodes with node.key < key and r holding exactly those with
\* node.key >= key, and l and r each satisfy the BST, heap and size
\* invariants.
C15_SplitContract ==
    \A x \in SplitKeys :
        LET ts == TSplit(tnodes, troot, x)
            os == OSplit(onodes, oroot, x)
        IN  /\ Reach(ts.h, ts.l) = NodesBelow(tnodes, troot, x)
            /\ Reach(ts.h, ts.r) = NodesFrom(tnodes, troot, x)
            /\ TreapWellFormed(ts.h, ts.l) /\ TreapWellFormed(ts.h, ts.r)
            /\ SameKeysAndPriorities(tnodes, ts.h)
            /\ Reach(os.h, os.l) = NodesBelow(onodes, oroot, x)
            /\ Reach(os.h, os.r) = NodesFrom(onodes, oroot, x)
            /\ SetWellFormed(os.h, os.l) /\ SetWellFormed(os.h, os.r)
            /\ SameKeysAndPriorities(onodes, os.h)

\* a three-node tree whose split at a key that is present,
\* and at one that is absent, cuts a child off the root
C15_Witness ==
    /\ SetLen = 3
    /\ \E x \in ref :
           LET os == OSplit(onodes, oroot, x)
           IN  /\ os.l # Nil /\ os.r # Nil
               /\ os.h[oroot].size < onodes[oroot].size
    /\ \E x \in SplitKeys \ ref :
           LET ts == TSplit(tnodes, troot, x)
           IN  ts.l # Nil /\ ts.r # Nil /\ ts.h # tnodes

\* C16: for trees t1, t2 that each satisfy the BST, heap and size invariants
\* with every key of t1 below every key of t2, _merge(t1, t2) returns one
\* tree holding exactly the nodes of t1 and t2 that satisfies the BST, heap
\* and size invariants; if either input is empty the other is returned
\* unchanged.  The inputs are the two parts of a split, and the outer parts
\* of two splits (what delete merges).
C16_MergeContract ==
    \A x \in SplitKeys :
        LET ts  == TSplit(tnodes, troot, x)
            tm  == TMerge(ts.h, ts.l, ts.r)
            ts2 == TSplit(ts.h, ts.r, KeyPlusOne(x))
            tm2 == TMerge(ts2.h, ts.l, ts2.r)
            os  == OSplit(onodes, oroot, x)
            om  == OMerge(os.h, os.l, os.r)
            os2 == OSplit(os.h, os.r, KeyPlusOne(x))
            om2 == OMerge(os2.h, os.l, os2.r)
        IN  /\ Reach(tm.h, tm.t) = Reach(ts.h, ts.l) \cup Reach(ts.h, ts.r)
            /\ TreapWellFormed(tm.h, tm.t)
            /\ Reach(tm2.h, tm2.t) = Reach(ts2.h, ts.l) \cup Reach(ts2.h, ts2.r)
            /\ TreapWellFormed(tm2.h, tm2.t)
            /\ ts.l = Nil => (tm.t = ts.r /\ tm.h = ts.h)
            /\ ts.r = Nil => (tm.t = ts.l /\ tm.h = ts.h)
            /\ Reach(om.h, om.t) = Reach(os.h, os.l) \cup Reach(os.h, os.r)
            /\ SetWellFormed(om.h, om.t)
            /\ Reach(om2.h, om2.t) = Reach(os2.h, os.l) \cup Reach(os2.h, os2.r)
            /\ SetWellFormed(om2.h, om2.t)
            /\ os.l = Nil => (om.t = os.r /\ om.h = os.h)
            /\ os.r = Nil => (om.t = os.l /\ om.h = os.h)

\* a three-node tree: a merge of two non-empty parts whose
\* result is rooted at the right part's root, one rooted at the left
\* part's, and a merge with an empty left part
C16_Witness ==
    /\ SetLen = 3
    /\ \E x \in SplitKeys :
           LET os == OSplit(onodes, oroot, x)
               om == OMerge(os.h, os.l, os.r)
           IN  os.l # Nil /\ os.r # Nil /\ om.t = os.r /\ om.h # os.h
    /\ \E x \in SplitKeys :
           LET ts == TSplit(tnodes, troot, x)
               tm == TMerge(ts.h, ts.l, ts.r)
           IN  ts.l # Nil /\ ts.r # Nil /\ tm.t = ts.l /\ tm.h # ts.h
    /\ \E x \in SplitKeys :
           LET os == OSplit(onodes, oroot, x)
           IN  os.l = Nil /\ os.r # Nil

\* C17: in every state reachable by insert and delete, for every k with
\* 0 <= k < len(T), order_of_key(find_by_order(k)) = k.
C17_RankOfKth ==
    \A k \in 0 .. SetLen - 1 : OrderOfKey(FindByOrder(k)) = k

C17_Witness ==
    /\ SetLen = 3 /\ SomeDeleted
    /\ OrderOfKey(FindByOrder(2)) = 2
    /\ FindByOrder(1) # onodes[oroot].key
    /\ OrderOfKey(FindByOrder(0)) = 0

\* C18: for every tree the containers build and every key x, present or
\* not, _merge(*_split(T, x)) has exactly the key set and the node count
\* of T.
C18_SplitMergeRoundTrip ==
    \A x \in SplitKeys :
        LET ts == TSplit(tnodes, troot, x)
            tm == TMerge(ts.h, ts.l, ts.r)
            os == OSplit(onodes, oroot, x)
            om == OMerge(os.h, os.l, os.r)
        IN  /\ KeysOf(tm.h, tm.t) = KeysOf(tnodes, troot)
            /\ NodeCount(tm.h, tm.t) = NodeCount(tnodes, troot)
            /\ Len(InOrder(tm.h, tm.t)) = Len(InOrder(tnodes, troot))
            /\ KeysOf(om.h, om.t) = KeysOf(onodes, oroot)
            /\ NodeCount(om.h, om.t) = NodeCount(onodes, oroot)
            /\ GetSize(om.h, om.t) = GetSize(onodes, oroot)

\* a three-node tree, split at a present key and at an
\* absent key into two non-empty parts and merged back
C18_Witness ==
    /\ NodeCount(tnodes, troot) = 3
    /\ \E x \in ref, y \in SplitKeys \ ref :
           LET ts == TSplit(tnodes, troot, x)
               tm == TMerge(ts.h, ts.l, ts.r)
               os == OSplit(onodes, oroot, y)
               om == OMerge(os.h, os.l, os.r)
           IN  /\ ts.l # Nil /\ ts.r # Nil /\ ts.h # tnodes
               /\ KeysOf(tm.h, tm.t) = ref
               /\ os.l # Nil /\ os.r # Nil /\ os.h # onodes
               /\ KeysOf(om.h, om.t) = ref

\* insert(x) then delete(x), and delete(x) then insert(x), applied to the
\* OrderedSet's tree; p is the priority the inserted node draws
InsertThenDelete(x, p) ==
    LET i == OInsert(onodes, oroot, x, created + 1, p)
    IN  ODelete(i.h, i.t, x)

DeleteThenInsert(x, p) ==
    LET d == ODelete(onodes, oroot, x)
    IN  OInsert(Live(d.h, d.t), d.t, x, created + 1, p)

\* C19: with integer keys, if x is not in T the key set after insert(x)
\* then delete(x) is that of T; if x is in T the key set after delete(x)
\* then insert(x) is that of T; sizes are equal as well, whatever priority
\* the inserted node draws.
C19_InsertDeleteInverse ==
    \A x \in IntKeys, p \in Priorities :
        /\ x \notin KeysOf(onodes, oroot) =>
              LET e == InsertThenDelete(x, p)
              IN  /\ KeysOf(e.h, e.t) = KeysOf(onodes, oroot)
                  /\ GetSize(e.h, e.t) = SetLen
                  /\ NodeCount(e.h, e.t) = NodeCount(onodes, oroot)
        /\ x \in KeysOf(onodes, oroot) =>
              LET e == DeleteThenInsert(x, p)
              IN  /\ KeysOf(e.h, e.t) = KeysOf(onodes, oroot)
                  /\ GetSize(e.h, e.t) = SetLen
                  /\ NodeCount(e.h, e.t) = NodeCount(onodes, oroot)

\* a two-node tree: an absent key between the two keys is
\* inserted and deleted again, and for a present key, re-inserted after
\* its delete, a priority exists that moves the root and one that keeps it
C19_Witness ==
    /\ SetLen = 2
    /\ \E x \in IntKeys \ ref, p \in Priorities :
           /\ \E a, b \in ref : a < x /\ x < b
           /\ KeysOf(InsertThenDelete(x, p).h, InsertThenDelete(x, p).t) = ref
    /\ \E x \in ref, p, q \in Priorities :
           /\ DeleteThenInsert(x, p).t # oroot
           /\ DeleteThenInsert(x, q).t = oroot
           /\ KeysOf(DeleteThenInsert(x, p).h, DeleteThenInsert(x, p).t) = ref

\* C20: after inserting 5, 3, 8, 1, 4, 7, 9 in that order into an empty
\* OrderedSet, whatever priorities are drawn: search is true for the seven
\* values and false for 6, the in-order traversal is [1, 3, 4, 5, 7, 8, 9],
\* the size is 7, find_by_order(0) = 1, find_by_order(3) = 5,
\* find_by_order(6) = 9, order_of_key(5) = 3, order_of_key(1) = 0 and
\* order_of_key(10) = 7.
C20_ConcreteTrace ==
    created = Len(Scenario) =>
        /\ \A i \in 1 .. Len(Scenario) : OSearch(2 * Scenario[i])
        /\ ~OSearch(2 * 6)
        /\ InOrder(onodes, oroot) = <<2, 6, 8, 10, 14, 16, 18>>
        /\ SetLen = 7
        /\ FindByOrder(0) = 2 * 1
        /\ FindByOrder(3) = 2 * 5
        /\ FindByOrder(6) = 2 * 9
        /\ OrderOfKey(2 * 5) = 3
        /\ OrderOfKey(2 * 1) = 0
        /\ OrderOfKey(2 * 10) = 7

\* all seven inserted, the first inserted key no longer at the root and a
\* priority shared between a parent and its left child
C20_Witness ==
    /\ created = Len(Scenario)
    /\ SetLen = 7
    /\ onodes[oroot].key # 2 * Scenario[1]
    /\ \E n \in DOMAIN onodes :
           /\ onodes[n].left # Nil
           /\ onodes[onodes[n].left].priority = onodes[n].priority

\* C21: in every state reachable by insert and delete, each parent's
\* priority in the Treap is strictly greater than the priority of each of
\* its children, whatever values the priority source returns.
C21_StrictMaxHeap ==
    \A n \in Reach(tnodes, troot) :
        /\ tnodes[n].left # Nil =>
              tnodes[n].priority > tnodes[tnodes[n].left].priority
        /\ tnodes[n].right # Nil =>
              tnodes[n].priority > tnodes[tnodes[n].right].priority

\* C22: two runs that apply the same sequence of insert, delete, search,
\* find_by_order, order_of_key and len calls to an OrderedSet but draw
\* different priorities get the same result from every query at every
\* step.
C22_PrioritiesNotObservable ==
    /\ \A key \in IntKeys :
          /\ OSearch(key) = OSearchFrom(twin.nodes, twin.root, key)
          /\ OrderOfKey(key) = OrderOfKeyFrom(twin.nodes, twin.root, key, 0)
    /\ \A k \in Orders :
          FindByOrder(k) = FindByOrderFrom(twin.nodes, twin.root, k)
    /\ SetLen = GetSize(twin.nodes, twin.root)

\* three keys are held after a delete and the two runs' trees have
\* different roots and different priorities at the root
C22_Witness ==
    /\ SetLen = 3 /\ SomeDeleted
    /\ onodes[oroot].key # twin.nodes[twin.root].key
    /\ onodes[oroot].priority # twin.nodes[twin.root].priority
    /\ FindByOrder(1) = FindByOrderFrom(twin.nodes, twin.root, 1)
    /\ FindByOrder(1) \in ref

\* the number of references to node n held by the root reference t and by
\* the left and right fields of the nodes R reachable from t
RefCount(h, R, t, n) ==
    Cardinality({m \in R : h[m].left = n})
        + Cardinality({m \in R : h[m].right = n})
        + (IF t = n THEN 1 ELSE 0)

IsTree(h, t) ==
    LET R == Reach(h, t)
    IN  \A n \in R : RefCount(h, R, t, n) = 1

\* C23: after every public operation the nodes reachable from root form a
\* tree: every reachable node is referenced exactly once, by one parent's
\* left or right field or by root; and the two trees _split(t, key)
\* returns share no node and together hold exactly the nodes of t.
C23_NoAliasing ==
    /\ IsTree(tnodes, troot)
    /\ IsTree(onodes, oroot)
    /\ \A x \in SplitKeys :
          LET ts == TSplit(tnodes, troot, x)
              os == OSplit(onodes, oroot, x)
          IN  /\ Reach(ts.h, ts.l) \cap Reach(ts.h, ts.r) = {}
              /\ Reach(ts.h, ts.l) \cup Reach(ts.h, ts.r) = Reach(tnodes, troot)
              /\ IsTree(ts.h, ts.l) /\ IsTree(ts.h, ts.r)
              /\ Reach(os.h, os.l) \cap Reach(os.h, os.r) = {}
              /\ Reach(os.h, os.l) \cup Reach(os.h, os.r) = Reach(onodes, oroot)
              /\ IsTree(os.h, os.l) /\ IsTree(os.h, os.r)

\* a three-node tree built after a delete, with a node that has two
\* children, and a split of it that cuts a child off the root
C23_Witness ==
    /\ SomeDeleted /\ SetLen = 3
    /\ \E x \in SplitKeys :
          LET os == OSplit(onodes, oroot, x)
          IN  /\ os.l # Nil /\ os.r # Nil
              /\ os.h[oroot].left # onodes[oroot].left
                    \/ os.h[oroot].right # onodes[oroot].right
    /\ \E n \in DOMAIN tnodes : tnodes[n].left # Nil /\ tnodes[n].right # Nil

\* C24: from a node's creation by insert until its removal by delete no
\* operation writes its key or its priority; only left, right and size
\* change.  A node id names one Node object for the whole run.
C24_KeyPriorityFrozen ==
    [][/\ \A n \in DOMAIN tnodes \cap DOMAIN tnodes' :
             /\ tnodes'[n].key = tnodes[n].key
             /\ tnodes'[n].priority = tnodes[n].priority
       /\ \A n \in DOMAIN onodes \cap DOMAIN onodes' :
             /\ onodes'[n].key = onodes[n].key
             /\ onodes'[n].priority = onodes[n].priority]_vars

\* a tree of three nodes after a delete and at least four constructions,
\* whose first node is still held, below another node, with the key it was
\* created with
C24_Witness ==
    /\ SomeDeleted /\ NodeCount(tnodes, troot) = 3
    /\ 1 \in DOMAIN tnodes /\ 1 \in DOMAIN onodes
    /\ troot # 1 /\ oroot # 1
    /\ onodes[1].size < 3
    /\ tnodes[1].key = onodes[1].key /\ tnodes[1].key \in ref

\* the (key, priority) pairs of the nodes of a tree
PairsOf(h, t) ==
    {[key |-> h[n].key, priority |-> h[n].priority] : n \in Reach(h, t)}

\* the shape of a tree: key and priority of the root and the shapes of its
\* two subtrees
EmptyShape == [empty |-> TRUE]

RECURSIVE ShapeOf(_, _)
ShapeOf(h, t) ==
    IF t = Nil THEN EmptyShape
    ELSE [key |-> h[t].key, priority |-> h[t].priority,
          left |-> ShapeOf(h, h[t].left), right |-> ShapeOf(h, h[t].right)]

\* the Cartesian tree of a set of (key, priority) pairs: on top the pair of
\* maximum priority, the one of largest key among equal priorities
RECURSIVE Cartesian(_)
Cartesian(S) ==
    IF S = {} THEN EmptyShape
    ELSE LET top == CHOOSE a \in S : \A b \in S :
                        \/ b.priority < a.priority
                        \/ b.priority = a.priority /\ b.key <= a.key
         IN  [key |-> top.key, priority |-> top.priority,
              left |-> Cartesian({b \in S : b.key < top.key}),
              right |-> Cartesian({b \in S : b.key > top.key})]

\* C25: in every state reachable by insert and delete the tree is the
\* Cartesian tree of its current (key, priority) pairs: the root is the node
\* of maximum priority, of largest key among equal maximal priorities, and
\* so on for the keys below and above it; the shape depends on nothing
\* else.
C25_ShapeIsCartesian ==
    /\ ShapeOf(tnodes, troot) = Cartesian(PairsOf(tnodes, troot))
    /\ ShapeOf(onodes, oroot) = Cartesian(PairsOf(onodes, oroot))
    /\ Cardinality(PairsOf(onodes, oroot)) = SetLen

\* three nodes after a delete, two of them of the maximal priority: the
\* root is the one of larger key although it was created first
C25_Witness ==
    /\ SomeDeleted /\ SetLen = 3
    /\ \E n \in DOMAIN onodes :
          /\ n # oroot /\ n > oroot
          /\ onodes[n].priority = onodes[oroot].priority
          /\ onodes[n].key < onodes[oroot].key
    /\ \E n \in DOMAIN onodes : onodes[n].priority < onodes[oroot].priority
    /\ ShapeOf(tnodes, troot) = Cartesian(PairsOf(tnodes, troot))

\* Treap.insert's steps with the merges composed the other way:
\* _merge(_merge(l, new_node), r)
InsertLeftFirst(h, root, key, id, p) ==
    LET h0 == [n \in DOMAIN h \cup {id} |-> IF n = id THEN TNode(key, p) ELSE h[n]]
        s  == TSplit(h0, root, key)
        m1 == TMerge(s.h, s.l, id)
    IN  TMerge(m1.h, m1.t, s.r)

\* C26: for every tree the containers build, every new key x and every
\* priority p of the new node (equal to priorities in the tree or not),
\* _merge(l, _merge(new, r)) and _merge(_merge(l, new), r) give trees of
\* the same shape, and the Treap and the OrderedSet, given the same calls
\* and the same priority draws, have the same shape in every state.
C26_InsertCompositionsAgree ==
    /\ ShapeOf(tnodes, troot) = ShapeOf(onodes, oroot)
    /\ \A x \in IntKeys \ KeysOf(tnodes, troot), p \in Priorities :
          LET a == TInsert(tnodes, troot, x, created + 1, p)
              b == InsertLeftFirst(tnodes, troot, x, created + 1, p)
              c == OInsert(onodes, oroot, x, created + 1, p)
          IN  /\ ShapeOf(a.h, a.t) = ShapeOf(b.h, b.t)
              /\ ShapeOf(a.h, a.t) = ShapeOf(c.h, c.t)
              /\ x \in KeysOf(a.h, a.t)

\* a two-node tree after a delete, and a new key between its keys whose
\* priority equals both of theirs: the new node has a child on each side
\* of it or goes between the two nodes
C26_Witness ==
    /\ SomeDeleted /\ SetLen = 2
    /\ \E x \in IntKeys \ ref, p \in Priorities :
          LET a == TInsert(tnodes, troot, x, created + 1, p)
              b == InsertLeftFirst(tnodes, troot, x, created + 1, p)
          IN  /\ \A n \in DOMAIN tnodes : tnodes[n].priority = p
              /\ \E n, m \in DOMAIN tnodes :
                    tnodes[n].key < x /\ x < tnodes[m].key
              /\ a.h[created + 1].left # Nil
              /\ a.t # created + 1
              /\ ShapeOf(a.h, a.t) = ShapeOf(b.h, b.t)

\* the nodes _split(t, key) is called on: t, then the right child of a
\* node whose key is below key, the left child otherwise
RECURSIVE SplitPath(_, _, _)
SplitPath(h, t, key) ==
    IF t = Nil THEN {}
    ELSE {t} \cup SplitPath(h, IF h[t].key < key THEN h[t].right ELSE h[t].left, key)

\* C27: _split(t, key) writes only to the nodes on the one path from the
\* root that the search for key follows: a node off the path keeps left,
\* right and size; a node on the path has one child field reassigned
\* (right if node.key < key, left otherwise), to a node of the path or to
\* None, keeps the other, and has its size recomputed from its children.
C27_SplitWritesOnPath ==
    \A x \in SplitKeys :
        LET os   == OSplit(onodes, oroot, x)
            path == SplitPath(onodes, oroot, x)
        IN  /\ DOMAIN os.h = DOMAIN onodes
            /\ \A n \in DOMAIN onodes \ path : os.h[n] = onodes[n]
            /\ \A n \in path :
                  /\ os.h[n].key = onodes[n].key
                  /\ os.h[n].priority = onodes[n].priority
                  /\ IF onodes[n].key < x
                     THEN /\ os.h[n].left = onodes[n].left
                          /\ os.h[n].right \in path \cup {Nil}
                     ELSE /\ os.h[n].right = onodes[n].right
                          /\ os.h[n].left \in path \cup {Nil}
                  /\ os.h[n].size = 1 + GetSize(os.h, os.h[n].left)
                                      + GetSize(os.h, os.h[n].right)

\* a three-node tree and a key whose path has two nodes: the third node is
\* off the path, and a node of the path loses its child and a unit of size
C27_Witness ==
    /\ SetLen = 3
    /\ \E x \in SplitKeys :
          LET os   == OSplit(onodes, oroot, x)
              path == SplitPath(onodes, oroot, x)
          IN  /\ Cardinality(path) = 2
              /\ \E n \in path :
                    /\ os.h[n].size < onodes[n].size
                    /\ os.h[n].left # onodes[n].left
                          \/ os.h[n].right # onodes[n].right
              /\ \E n \in DOMAIN onodes \ path : os.h[n] = onodes[n]

\* C28: random.random() is called once for each Node constructed, that is
\* once by each insert of an absent key and never by an insert of a key
\* that is present, a delete or a query; the node a re-insert of a deleted
\* key puts in the tree is a new one with a priority drawn for it, and a
\* node that a delete removed is never in the tree again.  `created` counts
\* the Node constructions, one draw each.
C28_OneDrawPerNode ==
    [][/\ created' \in {created, created + 1}
       /\ created' = created + 1 <=>
             (last'.op = "insert" /\ last'.arg \notin KeysOf(onodes, oroot))
       /\ \A n \in DOMAIN onodes \cup DOMAIN tnodes : n <= created
       /\ DOMAIN onodes' \ DOMAIN onodes =
             IF created' = created + 1 THEN {created + 1} ELSE {}
       /\ DOMAIN tnodes' \ DOMAIN tnodes =
             IF created' = created + 1 THEN {created + 1} ELSE {}
       /\ created' = created + 1 =>
             /\ onodes'[created'].key = last'.arg
             /\ tnodes'[created'].key = last'.arg
             /\ onodes'[created'].priority \in Priorities
             /\ onodes'[created'].priority = tnodes'[created'].priority
             /\ created' \in Reach(onodes', oroot')]_vars

\* more nodes were constructed than there are keys, so a deleted key was
\* inserted again: the newest node holds it, with a priority above that of
\* every other node, and the node removed is not in the tree
C28_Witness ==
    /\ created > Cardinality(IntKeys)
    /\ last.op = "insert"
    /\ created \in DOMAIN onodes
    /\ onodes[created].key = last.arg
    /\ oroot = created
    /\ \A n \in DOMAIN onodes \ {created} :
          onodes[n].priority < onodes[created].priority
    /\ Cardinality(DOMAIN onodes) < created

\* C29: search is not safe while an insert or delete of another key is in
\* progress on the same tree.  A search none of whose reads falls between
\* the start of a mutator and its root assignment returns whether the key
\* was in the tree, and the mutator taken step by step ends with the tree
\* of the keys; the witness is a search that overlaps an insert of
\* another key and returns False for a key that is in the tree before,
\* during and after the insert.
C29_SearchRightUnlessOverlapped ==
    /\ (conc.search.phase = "done" /\ ~conc.search.overlap) =>
           conc.search.result = conc.search.member
    /\ conc.mut.phase = "done" =>
           /\ TreapWellFormed(tnodes, troot)
           /\ KeysOf(tnodes, troot) = ref

C29_Witness ==
    /\ conc.search.phase = "done"
    /\ conc.search.result = FALSE
    /\ conc.search.member
    /\ conc.search.overlap
    /\ conc.mut.phase = "done" /\ conc.mut.op = "insert"
    /\ conc.mut.key # conc.search.key
    /\ conc.search.key \in ref
    /\ TSearch(conc.search.key)

\* the number of nodes on the longest path from t down
RECURSIVE Height(_, _)
Height(h, t) ==
    IF t = Nil THEN 0
    ELSE LET hl == Height(h, h[t].left)
             hr == Height(h, h[t].right)
         IN  1 + (IF hl > hr THEN hl ELSE hr)

\* C30: on every tree the containers build every operation ends: search,
\* find_by_order and order_of_key visit at most height(T) nodes; _split(t,
\* key) recurses at most height(t) deep; _merge(t1, t2) recurses at most
\* height(t1) + height(t2) deep; insert and delete end with a root that is
\* a node of the tree, or None.
C30_BoundedVisits ==
    LET H == Height(onodes, oroot)
    IN  /\ \A key \in IntKeys :
              /\ SearchVisits(onodes, oroot, key) <= H
              /\ OrderOfKeyVisits(onodes, oroot, key) <= H
        /\ \A k \in Orders : FindByOrderVisits(onodes, oroot, k) <= H
        /\ \A x \in SplitKeys :
              LET os == OSplit(onodes, oroot, x)
              IN  /\ SplitDepth(onodes, oroot, x) <= H
                  /\ MergeDepth(os.h, os.l, os.r)
                        <= Height(os.h, os.l) + Height(os.h, os.r)
        /\ \A x \in IntKeys, p \in Priorities :
              LET id == created + 1
                  h0 == [n \in DOMAIN onodes \cup {id} |->
                           IF n = id THEN ONode(x, p) ELSE onodes[n]]
                  s  == OSplit(h0, oroot, x)
                  m1 == OMerge(s.h, s.l, id)
                  i  == OInsert(onodes, oroot, x, id, p)
                  d  == ODelete(onodes, oroot, x)
              IN  /\ MergeDepth(s.h, s.l, id) <= Height(s.h, s.l) + 1
                  /\ MergeDepth(m1.h, m1.t, s.r)
                        <= Height(m1.h, m1.t) + Height(m1.h, s.r)
                  /\ i.t \in DOMAIN i.h
                  /\ d.t \in DOMAIN d.h \cup {Nil}
                  /\ ~d.raised

\* a tree of three nodes in one chain: a search and a find_by_order that
\* visit all three, a split that recurses three deep and a merge of its two
\* parts that recurses twice
C30_Witness ==
    /\ SetLen = 3 /\ Height(onodes, oroot) = 3
    /\ \E key \in IntKeys : SearchVisits(onodes, oroot, key) = 3
    /\ \E k \in Orders : FindByOrderVisits(onodes, oroot, k) = 3
    /\ \E x \in SplitKeys :
          LET os == OSplit(onodes, oroot, x)
          IN  /\ SplitDepth(onodes, oroot, x) = 3
              /\ MergeDepth(os.h, os.l, os.r) = 2

=============================================================================
